---- MODULE Spec2Model ----
(***************************************************************************)
(* Model of the Docs.ai legal question-answering server: the vector store  *)
(* (src/src/vector_store.py), the answer pipeline (src/src/rag_pipeline.py)*)
(* and the two HTTP front ends (src/main.py, src/src/api.py).              *)
(*                                                                         *)
(* Numbers.  The code computes distances and scores in binary floating     *)
(* point.  The model keeps that arithmetic but scales it down: a value is  *)
(* an integer count of units of 2^-(2*FracBits), and a value is            *)
(* representable when it has at most Precision significant bits.  Every    *)
(* arithmetic result is rounded to the nearest representable value, ties   *)
(* to even, as IEEE-754 does.  Values rounded to 3 decimals are integers   *)
(* counting thousandths.                                                   *)
(***************************************************************************)
EXTENDS Integers, Sequences, FiniteSets, TLC

\* ------------------------------------------------------------------ bounds
FracBits == 4        \* fractional bits of an embedding coordinate
Precision == 4       \* significant bits of a floating-point value
MaxTopK == 2         \* largest top_k a request carries
MaxDocs == 2         \* most records kept in loaded_documents
MaxPending == 1      \* most uploads suspended in 'await file.read()'
MaxQuestions == 2    \* cap of the questions_answered counter

NULL == "None"

\* ------------------------------------------------------- integer helpers
RECURSIVE Pow2(_)
Pow2(n) == IF n = 0 THEN 1 ELSE 2 * Pow2(n - 1)

\* the value 1.0 in units
One == Pow2(2 * FracBits)

\* num/den rounded to the nearest integer, ties to the even one
RoundHalfEven(num, den) ==
    LET q == num \div den
        r == num % den
    IN  IF 2 * r < den THEN q
        ELSE IF 2 * r > den THEN q + 1
        ELSE IF q % 2 = 0 THEN q ELSE q + 1

RECURSIVE ExpOf(_)
\* the exponent e at which q \div 2^e fits in Precision bits
ExpOf(q) == IF q < Pow2(Precision) THEN 0 ELSE 1 + ExpOf(q \div 2)

\* num/den (in units) rounded to the nearest representable value
FloatRound(num, den) ==
    LET e == ExpOf(num \div den)
    IN  RoundHalfEven(num, den * Pow2(e)) * Pow2(e)

FAdd(a, b) == FloatRound(a + b, 1)
FDiv(a, b) == FloatRound(a * One, b)

\* the largest finite value: what the index reports for a missing neighbour
FltMax == (Pow2(Precision) - 1) * Pow2(2 * FracBits + 2)

\* round(x, 3): a value in units to a count of thousandths
Round3(x) == RoundHalfEven(x * 1000, One)

\* ---------------------------------------------------------- text helpers
\* A text is a tuple of one-character strings.
RECURSIVE Join(_, _)
\* sep.join(parts)
Join(parts, sep) ==
    IF Len(parts) = 0 THEN <<>>
    ELSE IF Len(parts) = 1 THEN parts[1]
    ELSE parts[1] \o sep \o Join(Tail(parts), sep)

\* needle in hay (substring test), for a needle of at least one character
Contains(hay, needle) ==
    \E i \in 1..(Len(hay) - Len(needle) + 1) :
        /\ hay[i] = needle[1]
        /\ SubSeq(hay, i, i + Len(needle) - 1) = needle

UpperCase == <<"A","B","C","D","E","F","G","H","I","J","K","L","M",
               "N","O","P","Q","R","S","T","U","V","W","X","Y","Z">>
LowerCase == <<"a","b","c","d","e","f","g","h","i","j","k","l","m",
               "n","o","p","q","r","s","t","u","v","w","x","y","z">>

UpperLetters == {UpperCase[i] : i \in 1..26}

\* the lower-case letter of each upper-case letter
LowerOf == [c \in UpperLetters |-> LowerCase[CHOOSE i \in 1..26 : UpperCase[i] = c]]

LowerChar(c) == IF c \in UpperLetters THEN LowerOf[c] ELSE c

\* str.lower()
Lower(t) == [i \in 1..Len(t) |-> LowerChar(t[i])]


\* ------------------------------------------------------------ sample data
\* Chunk texts, questions and the embedding the model assigns to each.  A text
\* is a tuple of characters; the texts are abridged passages of a contract.
TextTerm == <<"T","e","r","m","i","n","a","t"," ","6","0"," ","d","a","y","s">>
TextPay == <<"s","a","l","a","r","y"," ","1","3","5",",","0","0","0">>
TextConf == <<"C","o","n","f","i","d","e","n","t"," ","3"," ","y","e","a","r","s">>

QEnd == <<"E","n","d","?">>
QPay == <<"p","a","y">>
QWho == <<"w","h","o">>
QNda == <<"N","D","A"," ","i","p">>

Questions == {QEnd, QPay, QWho}

ChunkTerm == [text |-> TextTerm, chunk_id |-> 0, type |-> "langchain_split"]
ChunkPay == [text |-> TextPay, chunk_id |-> 1, type |-> "langchain_split"]
ChunkConf == [text |-> TextConf, chunk_id |-> 0, type |-> "sentence_based"]

\* embedding_model.encode: a fixed map from a text to a point, here on a line,
\* a coordinate counted in units of 2^-FracBits
Embed(text) ==
    CASE text = TextTerm -> 0
      [] text = TextPay -> 16
      [] text = TextConf -> 40
      [] text = QEnd -> 1
      [] text = QPay -> 16
      [] text = QWho -> 8
      [] text = QNda -> 41
      [] OTHER -> 0

\* --------------------------------------------------------- vector store
\* VectorStore.__init__
NewVectorStore == [chunks_data |-> <<>>, index |-> <<>>, is_trained |-> FALSE]

\* VectorStore.create_embeddings with _create_faiss_index, for chunks # <<>>:
\* chunks_data and the index are replaced, not extended
CreateEmbeddings(vs, chunks) ==
    [chunks_data |-> chunks,
     index |-> [i \in 1..Len(chunks) |-> Embed(chunks[i].text)],
     is_trained |-> TRUE]

\* index.ntotal
NTotal(vs) == Len(vs.index)

\* the squared L2 distance IndexFlatL2 reports, a floating-point value
L2Sqr(a, b) == FloatRound((a - b) * (a - b), 1)
\* the index listing its vectors in any order
NearestFirstAnyOrder(index, qv) ==
    LET n == Len(index)
    IN  {p \in [1..n -> 1..n] : \A i, j \in 1..n : i # j => p[i] # p[j]}

\* the orders in which the index may list its n vectors: nearest first, vectors
\* at the same distance in any order
NearestFirst(index, qv) ==
    LET n == Len(index)
        d == [i \in 1..n |-> L2Sqr(qv, index[i])]
    IN  {p \in [1..n -> 1..n] :
            /\ \A i, j \in 1..n : i # j => p[i] # p[j]
            /\ \A i, j \in 1..n : i < j => d[p[i]] <= d[p[j]]}

\* index.search(query_vector, k): the k rows (distance, idx) it may return.
\* A missing neighbour is reported as idx -1 at the largest finite distance.
\* With k < 1 the library either refuses the call or returns no row,
\* depending on its version.
IndexSearch(index, qv, k) ==
    IF k < 1
    THEN {[raised |-> TRUE, rows |-> <<>>], [raised |-> FALSE, rows |-> <<>>]}
    ELSE {[raised |-> FALSE,
           rows |-> [i \in 1..k |->
                       IF i <= Len(index)
                       THEN [distance |-> L2Sqr(qv, index[p[i]]), idx |-> p[i] - 1]
                       ELSE [distance |-> FltMax, idx |-> -1]]] :
            p \in NearestFirst(index, qv)}

\* seq[idx] of a Python list: a negative idx counts from the end
PyIndex(seq, idx) == IF idx < 0 THEN seq[Len(seq) + idx + 1] ELSE seq[idx + 1]
\* 1 / (1 + distance) without the rounding of floating point
SimilarityTruncated(distance) == (One * One) \div (One + distance)

\* 1 / (1 + distance)
Similarity(distance) == FDiv(One, FAdd(One, distance))

\* the 'Safety check' of VectorStore.search
SafetyCheck(idx, chunks_data) == idx < Len(chunks_data)

\* the result VectorStore.search builds from row i (1-based) of the index's answer
ResultAt(chunks_data, rows, i) ==
    [chunk |-> PyIndex(chunks_data, rows[i].idx),
     similarity_score |-> Similarity(rows[i].distance),
     rank |-> i]

\* the loop of VectorStore.search over the rows the index returned
SearchResults(chunks_data, rows) ==
    LET F[i \in 0..Len(rows)] ==
            IF i = 0 THEN <<>>
            ELSE IF SafetyCheck(rows[i].idx, chunks_data)
                 THEN Append(F[i - 1], ResultAt(chunks_data, rows, i))
                 ELSE F[i - 1]
    IN  F[Len(rows)]

\* ------------------------------------------------------ answer pipeline
Min(a, b) == IF a < b THEN a ELSE b

DigitChars == <<"0","1","2","3","4","5","6","7","8","9">>

RECURSIVE Decimal(_)
\* str(n) for n >= 0
Decimal(n) ==
    IF n < 10 THEN <<DigitChars[n + 1]>>
    ELSE Decimal(n \div 10) \o <<DigitChars[(n % 10) + 1]>>

\* "*" * min(5, int(relevance * 5)); "*" stands for the star glyph of the source
RelevanceStars(relevance) == [i \in 1..Min(5, (relevance * 5) \div One) |-> "*"]

ContextHeader ==
    <<"R","E","L","E","V","A","N","T"," ","L","E","G","A","L"," ",
      "P","R","O","V","I","S","I","O","N","S",":">>

\* f"\n--- PROVISION {i+1} {relevance_stars} ---\n{chunk['text']}\n", i 1-based here
ContextPart(i, result) ==
    <<"\n","-","-","-"," ","P","R","O","V","I","S","I","O","N"," ">>
    \o Decimal(i) \o <<" ">> \o RelevanceStars(result.similarity_score)
    \o <<" ","-","-","-","\n">> \o result.chunk.text \o <<"\n">>

\* LegalAIPipeline._prepare_legal_context
PrepareLegalContext(search_results) ==
    Join(<<ContextHeader>>
           \o [i \in 1..Len(search_results) |-> ContextPart(i, search_results[i])],
         <<"\n">>)

KwTerminat == <<"t","e","r","m","i","n","a","t">>
KwEnd == <<"e","n","d">>
KwCancel == <<"c","a","n","c","e","l">>
KwSalary == <<"s","a","l","a","r","y">>
KwCompensat == <<"c","o","m","p","e","n","s","a","t">>
KwPay == <<"p","a","y">>
KwBonus == <<"b","o","n","u","s">>
KwConfident == <<"c","o","n","f","i","d","e","n","t">>
KwSecret == <<"s","e","c","r","e","t">>
KwNda == <<"n","d","a">>
KwIntellectual == <<"i","n","t","e","l","l","e","c","t","u","a","l">>
KwIp == <<"i","p">>
KwProperty == <<"p","r","o","p","e","r","t","y">>
KwInvention == <<"i","n","v","e","n","t","i","o","n">>
Kw60Days == <<"6","0"," ","d","a","y","s">>
Kw135Comma == <<"1","3","5",",","0","0","0">>
Kw135Plain == <<"1","3","5","0","0","0">>
Kw3Years == <<"3"," ","y","e","a","r","s">>

\* any(word in text for word in words)
AnyIn(words, text) == \E w \in words : Contains(text, w)

\* LegalAIPipeline._analyze_legal_content: the keys of the dict it returns
\* (the value under a key is a fixed text)
AnalyzeLegalContent(context) ==
    LET context_lower == Lower(context)
    IN  {k \in {"termination", "compensation", "confidentiality", "ip"} :
            \/ /\ k = "termination"
               /\ Contains(context_lower, KwTerminat)
               /\ (Contains(context, Kw60Days) \/ Contains(context_lower, Kw60Days))
            \/ /\ k = "compensation"
               /\ AnyIn({KwSalary, KwCompensat, KwBonus}, context_lower)
               /\ (Contains(context, Kw135Comma) \/ Contains(context, Kw135Plain))
            \/ /\ k = "confidentiality"
               /\ Contains(context_lower, KwConfident)
               /\ Contains(context, Kw3Years)
            \/ /\ k = "ip"
               /\ AnyIn({KwIntellectual, KwIp, KwInvention}, context_lower)}

\* An answer text.  kind "fallback": the template named, filled with the
\* analysis text of that key (detail "analysis"), with the template's default
\* text (detail "default") or, for the generic template, with the context.
\* kind "llm": the text the model returned.  kind "null": Python's None.
FallbackAnswer(template, detail, context) ==
    [kind |-> "fallback", template |-> template, detail |-> detail, context |-> context]
LlmAnswer(content) ==
    IF content = NULL
    THEN [kind |-> "null", template |-> "", detail |-> "", context |-> <<>>]
    ELSE [kind |-> "llm", template |-> "", detail |-> content, context |-> <<>>]

\* analysis.get(key, default) inside a template
TemplateWith(template, key, analysis) ==
    FallbackAnswer(template, IF key \in analysis THEN "analysis" ELSE "default", <<>>)
\* a fallback that looks at search_results: called with [], it answers with the
\* generic template
SmartFallbackByResults(question, context, search_results) ==
    IF search_results = <<>>
    THEN FallbackAnswer("generic", "context", context)
    ELSE TemplateWith("termination", "termination", AnalyzeLegalContent(context))
\* a fallback that looks for the compensation keywords before the termination
\* keywords
SmartFallbackPayFirst(question, context, search_results) ==
    LET analysis == AnalyzeLegalContent(context)
        question_lower == Lower(question)
    IN  IF AnyIn({KwSalary, KwCompensat, KwPay, KwBonus}, question_lower)
        THEN TemplateWith("compensation", "compensation", analysis)
        ELSE IF AnyIn({KwTerminat, KwEnd, KwCancel}, question_lower)
        THEN TemplateWith("termination", "termination", analysis)
        ELSE IF AnyIn({KwConfident, KwSecret, KwNda}, question_lower)
        THEN TemplateWith("confidentiality", "confidentiality", analysis)
        ELSE IF AnyIn({KwIntellectual, KwIp, KwProperty, KwInvention}, question_lower)
        THEN TemplateWith("ip", "ip", analysis)
        ELSE FallbackAnswer("generic", "context", context)

\* LegalAIPipeline._smart_fallback
SmartFallback(question, context, search_results) ==
    LET analysis == AnalyzeLegalContent(context)
        question_lower == Lower(question)
    IN  IF AnyIn({KwTerminat, KwEnd, KwCancel}, question_lower)
        THEN TemplateWith("termination", "termination", analysis)
        ELSE IF AnyIn({KwSalary, KwCompensat, KwPay, KwBonus}, question_lower)
        THEN TemplateWith("compensation", "compensation", analysis)
        ELSE IF AnyIn({KwConfident, KwSecret, KwNda}, question_lower)
        THEN TemplateWith("confidentiality", "confidentiality", analysis)
        ELSE IF AnyIn({KwIntellectual, KwIp, KwProperty, KwInvention}, question_lower)
        THEN TemplateWith("ip", "ip", analysis)
        ELSE FallbackAnswer("generic", "context", context)

\* What the POST to /chat/completions may do.  tag names the case; a reply
\* carries a status and, under status 200, a JSON body (a record whose fields
\* are the body's keys).
LlmRaise == [tag |-> "raise"]
LlmNon200 == [tag |-> "non200", status |-> 500]
LlmBody(tag, body) == [tag |-> tag, status |-> 200, body |-> body]
LlmReplies ==
    {LlmNon200,
     LlmBody("choices", [choices |-> <<[message |-> [content |-> "generated"]]>>]),
     LlmBody("choices_malformed", [choices |-> <<[text |-> "generated"]>>]),
     LlmBody("choices_null", [choices |-> <<[message |-> [content |-> NULL]]>>]),
     LlmBody("message", [choices |-> <<>>, message |-> [content |-> "generated"]]),
     LlmBody("response", [response |-> "generated"]),
     LlmBody("no_keys", [error |-> "busy"])}

\* the outcomes of the POST when the model service is reachable (it may still
\* time out or answer badly) and when it is not
LlmOutcomes(up) == IF up THEN LlmReplies \cup {LlmRaise} ELSE {LlmRaise, LlmNon200}

\* the failures the pipeline is to survive
LlmFailureTags == {"raise", "non200", "choices_malformed", "no_keys"}

HasKey(dict, key) == key \in DOMAIN dict

\* LegalAIPipeline._call_llm_robust, given what the POST does
CallLlmRobust(question, context, outcome) ==
    IF outcome.tag = "raise"
    THEN SmartFallback(question, context, <<>>)
    ELSE IF outcome.status = 200
    THEN LET result == outcome.body
         IN  IF HasKey(result, "choices") /\ result.choices # <<>>
             THEN IF /\ HasKey(result.choices[1], "message")
                     /\ HasKey(result.choices[1].message, "content")
                  THEN LlmAnswer(result.choices[1].message.content)
                  ELSE SmartFallback(question, context, <<>>)
             ELSE IF HasKey(result, "message")
             THEN IF HasKey(result.message, "content")
                  THEN LlmAnswer(result.message.content)
                  ELSE SmartFallback(question, context, <<>>)
             ELSE IF HasKey(result, "response")
             THEN LlmAnswer(result.response)
             ELSE SmartFallback(question, context, <<>>)
    ELSE SmartFallback(question, context, <<>>)

\* max_length of the content preview of a source
PreviewLength == 120

\* the largest i <= Len(t) with t[i] = " ", or 0
LastSpace(t) ==
    IF \E i \in 1..Len(t) : t[i] = " "
    THEN CHOOSE i \in 1..Len(t) : t[i] = " " /\ \A j \in (i + 1)..Len(t) : t[j] # " "
    ELSE 0

\* LegalAIPipeline._truncate_text
TruncateText(text, max_length) ==
    IF Len(text) <= max_length THEN text
    ELSE LET head == SubSeq(text, 1, max_length)
             cut == LastSpace(head)
         IN  (IF cut = 0 THEN head ELSE SubSeq(head, 1, cut - 1)) \o <<".",".",".">>
\* a source whose relevance_score is cut to 3 decimals, not rounded
SourceOfUnrounded(result) ==
    [content_preview |-> TruncateText(result.chunk.text, PreviewLength),
     relevance_score |-> (result.similarity_score * 1000) \div One,
     type |-> IF HasKey(result.chunk, "type") THEN result.chunk.type
              ELSE "legal_provision",
     full_content |-> result.chunk.text]

\* one entry of sources in _format_legal_response
SourceOf(result) ==
    [content_preview |-> TruncateText(result.chunk.text, PreviewLength),
     relevance_score |-> Round3(result.similarity_score),
     type |-> IF HasKey(result.chunk, "type") THEN result.chunk.type
              ELSE "legal_provision",
     full_content |-> result.chunk.text]

\* total_confidence after the loop: the scores added one by one, in floating point
TotalConfidence(search_results) ==
    LET F[i \in 0..Len(search_results)] ==
            IF i = 0 THEN 0 ELSE FAdd(F[i - 1], search_results[i].similarity_score)
    IN  F[Len(search_results)]
\* total_confidence taken as the confidence, the division left out
AvgConfidenceTotal(search_results) == TotalConfidence(search_results)

\* avg_confidence = total_confidence / len(sources) if sources else 0
AvgConfidence(search_results) ==
    IF Len(search_results) > 0
    THEN FloatRound(TotalConfidence(search_results), Len(search_results))
    ELSE 0

\* LegalAIPipeline._format_legal_response (the measured times are left at 0)
FormatLegalResponse(answer, search_results) ==
    LET sources == [i \in 1..Len(search_results) |-> SourceOf(search_results[i])]
    IN  [answer |-> answer,
         sources |-> sources,
         confidence |-> Round3(AvgConfidence(search_results)),
         performance |-> [search_time_seconds |-> 0,
                          answer_time_seconds |-> 0,
                          total_time_seconds |-> 0,
                          sources_count |-> Len(sources)]]

\* VectorStore.search: the outcomes it may have.  raised: it raised instead of
\* returning; rows: what the index returned; results: the list returned.
VectorStoreSearch(vs, query, top_k) ==
    IF ~vs.is_trained
    THEN {[raised |-> TRUE, rows |-> <<>>, results |-> <<>>]}
    ELSE {[raised |-> f.raised,
           rows |-> f.rows,
           results |-> SearchResults(vs.chunks_data, f.rows)] :
            f \in IndexSearch(vs.index, Embed(query), top_k)}

NotFoundAnswer ==
    [kind |-> "fixed", template |-> "not_found", detail |-> "", context |-> <<>>]

\* step 3 of answer_question: the model when llm_available, else the fallback
GenerateAnswer(llm_available, question, context, search_results, outcome) ==
    IF llm_available
    THEN CallLlmRobust(question, context, outcome)
    ELSE SmartFallback(question, context, search_results)

\* steps 3 and 4 of answer_question: the answer generated, then formatted
AnswerFrom(llm_available, question, context, search_results, outcome) ==
    FormatLegalResponse(
        GenerateAnswer(llm_available, question, context, search_results, outcome),
        search_results)

\* what answer_question returns when the search found nothing
NotFound ==
    [answer |-> NotFoundAnswer, sources |-> <<>>, confidence |-> 0, search_time |-> 0]
\* an answer_question without the early return for an empty search
AnswerQuestionAlwaysGenerates(llm_available, question, search_results, outcome) ==
    AnswerFrom(llm_available, question, PrepareLegalContext(search_results),
               search_results, outcome)

\* LegalAIPipeline.answer_question after a search that returned search_results,
\* given the outcome of the POST: the dict it returns
AnswerQuestion(llm_available, question, search_results, outcome) ==
    IF search_results = <<>>
    THEN NotFound
    ELSE AnswerFrom(llm_available, question, PrepareLegalContext(search_results),
                    search_results, outcome)

\* ------------------------------------------------------------- servers
\* Two front ends drive the same pipeline: src/main.py ("main", the
\* LegalAIAssistant object) and src/src/api.py ("api", the legal_ai_system dict).
VARIABLES
    server,             \* which front end is running
    llm_up,             \* whether the model service is reachable now
    files,              \* the files in the upload directory (their ids)
    loaded_documents,   \* the document records, in upload order
    vector_store,       \* the VectorStore object
    rag_pipeline,       \* the LegalAIPipeline object, or none
    questions_answered, \* the statistics counter
    is_ready,           \* the is_ready flag
    pending,            \* uploads suspended in 'await file.read()'
    last,               \* the request handled last and what it returned
    remembered          \* history: the latest run of the fallback

vars == <<server, llm_up, files, loaded_documents, vector_store, rag_pipeline,
          questions_answered, is_ready, pending, last, remembered>>
\* a validation that lets .exe through
AllowedWithExe == {".pdf", ".docx", ".txt", ".doc", ".exe"}

AllowedExtensions == {".pdf", ".docx", ".txt", ".doc"}
SupportedFormats == {".pdf", ".docx", ".txt"}

\* The files a client may upload: the extension of the name, the chunks
\* smart_chunking makes of the text the loader reads from the file, and whether
\* embedding_model.encode returns for these chunks (embeds) or raises.
UploadOf(filename, ext, chunks, embeds) ==
    [filename |-> filename, ext |-> ext, chunks |-> chunks, embeds |-> embeds]

Uploads ==
    {UploadOf("a.txt", ".txt", <<ChunkTerm, ChunkPay>>, TRUE),
     UploadOf("b.pdf", ".pdf", <<ChunkConf>>, TRUE),
     UploadOf("c.txt", ".txt", <<>>, TRUE),
     UploadOf("d.doc", ".doc", <<ChunkConf>>, TRUE),
     UploadOf("e.exe", ".exe", <<>>, TRUE),
     UploadOf("f.docx", ".docx", <<ChunkConf>>, FALSE)}

TopKs == 0..MaxTopK

NoPipeline == [present |-> FALSE, llm_available |-> FALSE]

\* ids in use: uuid4 never repeats one of them
UsedIds ==
    files \cup {p.file_id : p \in pending}
          \cup {loaded_documents[i].document_id : i \in 1..Len(loaded_documents)}
          \cup {loaded_documents[i].file_path : i \in 1..Len(loaded_documents)}

\* str(uuid.uuid4()): an id not in use (ids are opaque; the least one is taken)
FreshId(used) == CHOOSE n \in 0..Cardinality(used) : n \notin used

\* what a GET of /models may do: the service counts as reachable when it
\* answers this GET with status 200
GetOutcomes(up) == IF up THEN {"ok"} ELSE {"non200", "raise"}

\* LegalAIPipeline._test_llm_connection, given what its two GETs do
TestLlmConnection(first, second) ==
    IF first # "raise" THEN first = "ok"
    ELSE IF second # "raise" THEN second = "ok"
    ELSE FALSE

\* LegalAIPipeline.__init__
NewPipeline(first, second) ==
    [present |-> TRUE, llm_available |-> TestLlmConnection(first, second)]

FixedAnswer(name) ==
    [kind |-> "fixed", template |-> name, detail |-> "", context |-> <<>>]

\* the fields pydantic requires of a QuestionResponse
RequiredFields == {"success", "answer", "confidence", "sources", "performance"}

\* QuestionResponse(**fields) validates
ValidQuestionResponse(fields) ==
    /\ RequiredFields \subseteq DOMAIN fields
    /\ fields.answer.kind # "null"

InternalServerError == [status |-> 500, body |-> [detail |-> "Internal Server Error"]]

\* returning QuestionResponse(**fields) from a handler: a validation error is
\* not handled and becomes the framework's status 500
Respond(fields) ==
    IF ValidQuestionResponse(fields)
    THEN [status |-> 200,
          body |-> [success |-> fields.success,
                    answer |-> fields.answer,
                    confidence |-> fields.confidence,
                    sources |-> fields.sources,
                    performance |-> fields.performance,
                    error |-> IF HasKey(fields, "error") THEN fields.error ELSE NULL]]
    ELSE InternalServerError

\* LegalAIAssistant.ask_question of main.py: the dict it returns and whether it
\* counted the question.  returned: rag_pipeline.answer_question returned
\* result instead of raising.
MainAssistantAsk(ready, returned, question, result) ==
    IF ~ready
    THEN [counted |-> FALSE,
          dict |-> [success |-> FALSE, error |-> "no_documents",
                    answer |-> FixedAnswer("load_first")]]
    ELSE IF ~returned
    THEN [counted |-> FALSE,
          dict |-> [success |-> FALSE, error |-> "exception",
                    answer |-> FixedAnswer("error")]]
    ELSE IF ~HasKey(result, "performance")
    THEN [counted |-> TRUE,
          dict |-> [success |-> FALSE, error |-> "exception",
                    answer |-> FixedAnswer("error")]]
    ELSE [counted |-> TRUE,
          dict |-> [success |-> TRUE, question |-> question,
                    answer |-> result.answer, sources |-> result.sources,
                    confidence |-> result.confidence,
                    performance |-> result.performance]]

\* ask_question of main.py (POST /ask)
MainAsk(ready, returned, question, result) ==
    LET r == MainAssistantAsk(ready, returned, question, result)
    IN  [counted |-> r.counted, response |-> Respond(r.dict)]

\* the QuestionResponse api.py builds without a performance field
ApiFailure(answer, error) ==
    [success |-> FALSE, answer |-> FixedAnswer(answer), confidence |-> 0,
     sources |-> <<>>, error |-> error]

\* the QuestionResponse api.py builds from the pipeline's result
ApiSuccess(result) ==
    [success |-> TRUE, answer |-> result.answer, confidence |-> result.confidence,
     sources |-> result.sources, performance |-> result.performance]

\* ask_question of api.py (POST /ask)
ApiAsk(ready, returned, question, result) ==
    IF ~ready
    THEN [counted |-> FALSE,
          response |-> Respond(ApiFailure("upload_first", "no_documents"))]
    ELSE IF ~returned
    THEN [counted |-> FALSE, response |-> Respond(ApiFailure("error", "exception"))]
    ELSE IF HasKey(result, "performance") /\ ValidQuestionResponse(ApiSuccess(result))
    THEN [counted |-> TRUE, response |-> Respond(ApiSuccess(result))]
    ELSE [counted |-> TRUE, response |-> Respond(ApiFailure("error", "exception"))]

\* the handler of POST /ask of the running front end
AskHandler(srv, ready, returned, question, result) ==
    IF srv = "main"
    THEN MainAsk(ready, returned, question, result)
    ELSE ApiAsk(ready, returned, question, result)

\* ------------------------------------------------------------- actions
NothingRemembered ==
    [present |-> FALSE, question |-> <<>>, context |-> <<>>,
     answer |-> FixedAnswer(""), site |-> "", other_site |-> FALSE]

Init ==
    /\ server \in {"main", "api"}
    /\ llm_up \in BOOLEAN
    /\ files = {}
    /\ loaded_documents = <<>>
    /\ vector_store = NewVectorStore
    /\ rag_pipeline = NoPipeline
    /\ questions_answered = 0
    /\ is_ready = FALSE
    /\ pending = {}
    /\ last = [op |-> "start"]
    /\ remembered = NothingRemembered

\* the model service comes up or goes down
LlmToggle ==
    /\ llm_up' = ~llm_up
    /\ UNCHANGED <<server, files, loaded_documents, vector_store, rag_pipeline,
                   questions_answered, is_ready, pending, last, remembered>>

\* upload_document up to 'await file.read()': the extension is validated and
\* the file id drawn; a refused extension is answered with status 400
UploadBegin(u) ==
    /\ IF u.ext \notin AllowedExtensions
       THEN /\ last' = [op |-> "upload", status |-> 400, upload |-> u]
            /\ UNCHANGED pending
       ELSE /\ Cardinality(pending) < MaxPending
            /\ pending' = pending \cup {[upload |-> u, file_id |-> FreshId(UsedIds)]}
            /\ last' = [op |-> "upload_started", upload |-> u]
    /\ UNCHANGED <<server, llm_up, files, loaded_documents, vector_store,
                   rag_pipeline, questions_answered, is_ready, remembered>>

\* whether the processing of an upload raises: the loader refuses the format,
\* create_embeddings is given no chunk, or encode raises
ProcessingFails(u) ==
    u.ext \notin SupportedFormats \/ u.chunks = <<>> \/ ~u.embeds

\* the error the processing raises first
FailureDetail(u) ==
    IF u.ext \notin SupportedFormats THEN "unsupported_format"
    ELSE IF u.chunks = <<>> THEN "no_chunks"
    ELSE "embedding_error"
\* the saved file left in place
KeepFile(fs, file_id) == fs

\* os.remove(file_path)
RemoveFile(fs, file_id) == fs \ {file_id}
\* a record whose chunks_count is read from the index before it is rebuilt
DocInfoStaleCount(srv, document_id, u, file_id) ==
    [document_id |-> document_id,
     filename |-> IF srv = "main" THEN <<file_id, u.ext>> ELSE <<u.filename>>,
     chunks_count |-> NTotal(vector_store),
     file_path |-> file_id]

\* the record appended to loaded_documents (file size and time left out);
\* main.py records the name of the saved file, api.py the name uploaded
DocInfo(srv, document_id, u, file_id) ==
    [document_id |-> document_id,
     filename |-> IF srv = "main" THEN <<file_id, u.ext>> ELSE <<u.filename>>,
     chunks_count |-> Len(u.chunks),
     file_path |-> file_id]

\* the document id: main.py draws a second uuid, api.py reuses the file id
DocumentId(srv, file_id, used) ==
    IF srv = "main" THEN FreshId(used \cup {file_id}) ELSE file_id
\* a processing that leaves the saved file of a failed upload in place and
\* keeps no file for a successful one
ProcessFilesSwapped(u, file_id) ==
    /\ IF ProcessingFails(u)
       THEN /\ files' = files \cup {file_id}
            /\ last' = [op |-> "upload", status |-> 500, upload |-> u,
                        detail |-> FailureDetail(u)]
            /\ UNCHANGED <<loaded_documents, vector_store, rag_pipeline, is_ready>>
       ELSE /\ Len(loaded_documents) < MaxDocs
            /\ files' = files
            /\ vector_store' = CreateEmbeddings(vector_store, u.chunks)
            /\ \E first, second \in GetOutcomes(llm_up) :
                   rag_pipeline' = NewPipeline(first, second)
            /\ LET doc_info == DocInfo(server, DocumentId(server, file_id, UsedIds), u, file_id)
               IN  /\ loaded_documents' = Append(loaded_documents, doc_info)
                   /\ last' = [op |-> "upload", status |-> 200, upload |-> u,
                               body |-> [success |-> TRUE,
                                         document_id |-> doc_info.document_id,
                                         filename |-> doc_info.filename,
                                         chunks_count |-> Len(u.chunks)]]
            /\ is_ready' = TRUE
    /\ UNCHANGED <<server, llm_up, questions_answered, remembered>>

\* upload_document from the write of the file file_id on, with load_document:
\* a failure removes the file and answers 500; a success replaces the index,
\* builds a new pipeline and appends the record
Process(u, file_id) ==
    /\ IF ProcessingFails(u)
       THEN /\ files' = RemoveFile(files \cup {file_id}, file_id)
            /\ last' = [op |-> "upload", status |-> 500, upload |-> u,
                        detail |-> FailureDetail(u)]
            /\ UNCHANGED <<loaded_documents, vector_store, rag_pipeline, is_ready>>
       ELSE /\ Len(loaded_documents) < MaxDocs
            /\ files' = files \cup {file_id}
            /\ vector_store' = CreateEmbeddings(vector_store, u.chunks)
            /\ \E first, second \in GetOutcomes(llm_up) :
                   rag_pipeline' = NewPipeline(first, second)
            /\ LET doc_info == DocInfo(server, DocumentId(server, file_id, UsedIds), u, file_id)
               IN  /\ loaded_documents' = Append(loaded_documents, doc_info)
                   /\ last' = [op |-> "upload", status |-> 200, upload |-> u,
                               body |-> [success |-> TRUE,
                                         document_id |-> doc_info.document_id,
                                         filename |-> doc_info.filename,
                                         chunks_count |-> Len(u.chunks)]]
            /\ is_ready' = TRUE
    /\ UNCHANGED <<server, llm_up, questions_answered, remembered>>
\* a resumed upload that gives up when the server was cleared while it waited
UploadResumeUnlessCleared(p) ==
    /\ p \in pending
    /\ pending' = pending \ {p}
    /\ IF is_ready
       THEN Process(p.upload, p.file_id)
       ELSE /\ last' = [op |-> "upload", status |-> 500, upload |-> p.upload,
                        detail |-> "cleared"]
            /\ UNCHANGED <<server, llm_up, files, loaded_documents, vector_store,
                           rag_pipeline, questions_answered, is_ready, remembered>>

\* upload_document resumed after 'await file.read()'
UploadResume(p) ==
    /\ p \in pending
    /\ pending' = pending \ {p}
    /\ Process(p.upload, p.file_id)

\* POST /upload handled with no other request in between
Upload(u) ==
    IF u.ext \notin AllowedExtensions
    THEN /\ last' = [op |-> "upload", status |-> 400, upload |-> u]
         /\ UNCHANGED <<server, llm_up, files, loaded_documents, vector_store,
                        rag_pipeline, questions_answered, is_ready, pending,
                        remembered>>
    ELSE /\ Process(u, FreshId(UsedIds))
         /\ UNCHANGED pending

NotSearched == [raised |-> TRUE, rows |-> <<>>, results |-> <<>>]
NoResult == [none |-> TRUE]

\* what rag_pipeline.answer_question(question, top_k) may do on a pipeline over
\* the store vs: the search's outcome, the tag of the POST made ("not_called"
\* when none is made), whether it returned, and the dict returned
PipelineRuns(pipeline, vs, up, question, top_k) ==
    IF ~pipeline.present
    THEN {[searched |-> NotSearched, llm_call |-> "not_called",
           returned |-> FALSE, result |-> NoResult]}
    ELSE UNION {
           IF searched.raised
           THEN {[searched |-> searched, llm_call |-> "not_called",
                  returned |-> FALSE, result |-> NoResult]}
           ELSE IF searched.results # <<>> /\ pipeline.llm_available
           THEN LET context == PrepareLegalContext(searched.results)
                IN  {[searched |-> searched, llm_call |-> outcome.tag,
                      returned |-> TRUE,
                      result |-> AnswerFrom(TRUE, question, context,
                                            searched.results, outcome)] :
                        outcome \in LlmOutcomes(up)}
           ELSE {[searched |-> searched, llm_call |-> "not_called",
                  returned |-> TRUE,
                  result |-> AnswerQuestion(pipeline.llm_available, question,
                                            searched.results, LlmRaise)]} :
           searched \in VectorStoreSearch(vs, question, top_k)}

\* the record of a question in last
Asked(question, top_k, up, run) ==
    [op |-> "ask", question |-> question, top_k |-> top_k, llm_up |-> up,
     returned |-> run.returned, searched |-> run.searched,
     llm_call |-> run.llm_call, result |-> run.result]

\* POST /ask
Ask(question, top_k) ==
    /\ questions_answered < MaxQuestions
    /\ IF ~is_ready
       THEN LET handled == AskHandler(server, FALSE, FALSE, question, NoResult)
            IN  /\ last' = [op |-> "ask", question |-> question, top_k |-> top_k,
                            llm_up |-> llm_up, returned |-> FALSE,
                            searched |-> NotSearched, llm_call |-> "not_called",
                            result |-> NoResult, response |-> handled.response]
                /\ UNCHANGED questions_answered
       ELSE \E run \in PipelineRuns(rag_pipeline, vector_store, llm_up, question, top_k) :
              LET handled == AskHandler(server, TRUE, run.returned, question, run.result)
              IN  /\ last' = Asked(question, top_k, llm_up, run)
                                 @@ [response |-> handled.response]
                  /\ questions_answered' =
                         IF handled.counted THEN questions_answered + 1
                         ELSE questions_answered
    /\ UNCHANGED <<server, llm_up, files, loaded_documents, vector_store,
                   rag_pipeline, is_ready, pending, remembered>>
\* a clear that forgets to reset the statistics counter
ClearKeepsCounter ==
    /\ files' = files \ {loaded_documents[i].file_path : i \in 1..Len(loaded_documents)}
    /\ loaded_documents' = <<>>
    /\ is_ready' = FALSE
    /\ vector_store' = NewVectorStore
    /\ rag_pipeline' = NoPipeline
    /\ last' = [op |-> "clear", status |-> 200, dropped |-> Len(loaded_documents)]
    /\ UNCHANGED <<server, llm_up, pending, remembered, questions_answered>>
\* a clear that leaves the ready flag as it is
ClearLeavesReady ==
    /\ files' = files \ {loaded_documents[i].file_path : i \in 1..Len(loaded_documents)}
    /\ loaded_documents' = <<>>
    /\ UNCHANGED is_ready
    /\ questions_answered' = 0
    /\ vector_store' = NewVectorStore
    /\ rag_pipeline' = NoPipeline
    /\ last' = [op |-> "clear", status |-> 200, dropped |-> Len(loaded_documents)]
    /\ UNCHANGED <<server, llm_up, pending, remembered>>

\* clear_documents (DELETE /documents)
Clear ==
    /\ files' = files \ {loaded_documents[i].file_path : i \in 1..Len(loaded_documents)}
    /\ loaded_documents' = <<>>
    /\ is_ready' = FALSE
    /\ questions_answered' = 0
    /\ vector_store' = NewVectorStore
    /\ rag_pipeline' = NoPipeline
    /\ last' = [op |-> "clear", status |-> 200, dropped |-> Len(loaded_documents)]
    /\ UNCHANGED <<server, llm_up, pending, remembered>>

Next ==
    \/ LlmToggle
    \/ \E u \in Uploads : Upload(u)
    \/ \E question \in Questions, top_k \in TopKs : Ask(question, top_k)
    \/ Clear

\* the server handling one request at a time
Spec == Init /\ [][Next]_vars

\* The same server put one question only, with top_k 0 or 1: enough for every
\* way a question can end, and all that matters to what uploads and clears do.
ServerQuestions == {QPay}
ServerTopKs == {0, 1}

ServerNext ==
    \/ LlmToggle
    \/ \E u \in Uploads : Upload(u)
    \/ \E question \in ServerQuestions, top_k \in ServerTopKs : Ask(question, top_k)
    \/ Clear

ServerSpec == Init /\ [][ServerNext]_vars

\* ------------------------------------------- the pipeline on its own
\* The vector store and the pipeline driven directly, as the __main__ blocks of
\* vector_store.py and rag_pipeline.py drive them.
ChunkLists ==
    {u.chunks : u \in {v \in Uploads : v.chunks # <<>>}}
        \cup {<<ChunkTerm, ChunkPay, ChunkConf>>}

PipelineInit ==
    /\ server = "main"
    /\ llm_up \in BOOLEAN
    /\ files = {}
    /\ loaded_documents = <<>>
    /\ vector_store = NewVectorStore
    /\ \E first, second \in GetOutcomes(llm_up) :
           rag_pipeline = NewPipeline(first, second)
    /\ questions_answered = 0
    /\ is_ready = FALSE
    /\ pending = {}
    /\ last = [op |-> "start"]
    /\ remembered = NothingRemembered

\* vector_store.create_embeddings(chunks)
PipelineIndex(chunks) ==
    /\ vector_store' = CreateEmbeddings(vector_store, chunks)
    /\ last' = [op |-> "index"]
    /\ UNCHANGED <<server, llm_up, files, loaded_documents, rag_pipeline,
                   questions_answered, is_ready, pending, remembered>>

\* LegalAIPipeline(vector_store)
PipelineNew ==
    /\ \E first, second \in GetOutcomes(llm_up) :
           rag_pipeline' = NewPipeline(first, second)
    /\ last' = [op |-> "pipeline"]
    /\ UNCHANGED <<server, llm_up, files, loaded_documents, vector_store,
                   questions_answered, is_ready, pending, remembered>>

\* rag_pipeline.answer_question(question, top_k)
PipelineAsk(question, top_k) ==
    /\ \E run \in PipelineRuns(rag_pipeline, vector_store, llm_up, question, top_k) :
          last' = Asked(question, top_k, llm_up, run)
    /\ UNCHANGED <<server, llm_up, files, loaded_documents, vector_store,
                   rag_pipeline, questions_answered, is_ready, pending, remembered>>

PipelineNext ==
    \/ LlmToggle
    \/ \E chunks \in ChunkLists : PipelineIndex(chunks)
    \/ PipelineNew
    \/ \E question \in Questions, top_k \in TopKs : PipelineAsk(question, top_k)

PipelineSpec == PipelineInit /\ [][PipelineNext]_vars

\* ------------------------------------------- the fallback, run after run
\* The pipeline driven as above, with the latest run of _smart_fallback kept in
\* remembered: its question, context and answer, the call site it was run from
\* (answer_question, with the search results, or _call_llm_robust, with []),
\* and whether the run remembered before it had the same question and context
\* and was run from the other call site.
FallbackSite(run) ==
    IF run.llm_call = "not_called" THEN "answer_question" ELSE "_call_llm_robust"

Remember(before, question, run) ==
    LET context == PrepareLegalContext(run.searched.results)
    IN  [present |-> TRUE, question |-> question, context |-> context,
         answer |-> run.result.answer, site |-> FallbackSite(run),
         other_site |-> /\ before.present
                        /\ before.question = question
                        /\ before.context = context
                        /\ before.site # FallbackSite(run)]

\* rag_pipeline.answer_question(question, top_k) where it runs _smart_fallback
FallbackAsk(question, top_k) ==
    /\ \E run \in PipelineRuns(rag_pipeline, vector_store, llm_up, question, top_k) :
          /\ run.returned
          /\ run.searched.results # <<>>
          /\ run.result.answer.kind = "fallback"
          /\ remembered' = Remember(remembered, question, run)
    /\ last' = [op |-> "fallback"]
    /\ UNCHANGED <<server, llm_up, files, loaded_documents, vector_store,
                   rag_pipeline, questions_answered, is_ready, pending>>

FallbackNext ==
    \/ LlmToggle
    \/ \E chunks \in ChunkLists : PipelineIndex(chunks)
    \/ PipelineNew
    \/ \E question \in Questions, top_k \in TopKs : FallbackAsk(question, top_k)

FallbackSpec == PipelineInit /\ [][FallbackNext]_vars

\* ------------------------------------------- the fallback on its own
\* _smart_fallback applied once to a question and a context, as
\* answer_question and _call_llm_robust apply it.  The questions name no
\* keyword group, one, or several; the contexts are chunk texts, alone or in
\* pairs.
QPayEnd == <<"p","a","y"," ","e","n","d">>
QShip == <<"s","h","i","p">>
QBonusSecret == <<"b","o","n","u","s"," ","S","e","c","r","e","t">>
QProperty == <<"p","r","o","p","e","r","t","y">>
QCancelNda == <<"C","a","n","c","e","l"," ","N","D","A">>
QInvent == <<"m","y"," ","i","n","v","e","n","t","i","o","n"," ","p","a","y">>

FallbackQuestions ==
    {QEnd, QPay, QWho, QNda, QPayEnd, QShip, QBonusSecret, QProperty, QCancelNda,
     QInvent}

FallbackContexts ==
    {<<>>} \cup {t : t \in {TextTerm, TextPay, TextConf}}
           \cup {s \o <<"\n">> \o t : s, t \in {TextTerm, TextPay, TextConf}}

\* answer = self._smart_fallback(question, context, search_results)
FallbackPick(question, context) ==
    /\ last.op = "start"
    /\ \E search_results \in {<<>>, <<ChunkTerm>>} :
           last' = [op |-> "fallback_pick", question |-> question,
                    context |-> context,
                    answer |-> SmartFallback(question, context, search_results)]
    /\ UNCHANGED <<server, llm_up, files, loaded_documents, vector_store,
                   rag_pipeline, questions_answered, is_ready, pending, remembered>>

SmartFallbackSpec ==
    Init
        /\ [][\E question \in FallbackQuestions, context \in FallbackContexts :
                  FallbackPick(question, context)]_vars

\* ------------------------------------- the server with concurrent requests
AsyncNext ==
    \/ LlmToggle
    \/ \E u \in Uploads : UploadBegin(u)
    \/ \E p \in pending : UploadResume(p)
    \/ \E question \in Questions, top_k \in TopKs : Ask(question, top_k)
    \/ Clear

\* the server with requests interleaved where upload_document awaits
AsyncSpec == Init /\ [][AsyncNext]_vars

\* The same interleavings while the model service stays down, with one
\* question and two uploads: one that succeeds and one that fails.
AsyncUploads ==
    {UploadOf("a.txt", ".txt", <<ChunkTerm, ChunkPay>>, TRUE),
     UploadOf("c.txt", ".txt", <<>>, TRUE)}

AsyncServerNext ==
    \/ \E u \in AsyncUploads : UploadBegin(u)
    \/ \E p \in pending : UploadResume(p)
    \/ Ask(QPay, 1)
    \/ Clear

\* the server as it starts when the model service does not answer
AsyncInit ==
    /\ Init
    /\ ~llm_up

AsyncServerSpec == AsyncInit /\ [][AsyncServerNext]_vars

\* ------------------------------------------------------------ the chunker
\* SmartLegalChunker of src/src/document_processor.py.  The chunker is built
\* with a chunk_size and a chunk_overlap; the model builds it with small ones
\* so that short documents are split as long ones are under the defaults.

MaxPieces == 3       \* most pieces one run of the text splitter returns

MinWords == 8        \* _is_meaningful_chunk(min_words=8)
MaxTocSpan == 3000   \* [\s\S]{1,3000}? of the table-of-contents patterns

Digits == {DigitChars[i] : i \in 1..10}
Whitespace == {" ", "\n", "\t", "\r"}
SentenceEnders == {".", "!", "?"}

\* str.isalpha() of one character
IsAlpha(c) == c \in UpperLetters \/ c \in {LowerCase[i] : i \in 1..26}

\* seq[start:] of Python, start possibly negative
PySliceFrom(seq, start) ==
    LET n == Len(seq)
        s == IF start < 0 THEN (IF n + start > 0 THEN n + start ELSE 0)
             ELSE Min(start, n)
    IN  SubSeq(seq, s + 1, n)

RECURSIVE RunLen(_, _, _)
\* the length of the longest run of characters of cls that starts at text[i]
RunLen(text, i, cls) ==
    IF i <= Len(text) /\ text[i] \in cls THEN 1 + RunLen(text, i + 1, cls) ELSE 0

RECURSIVE WordLen(_, _)
\* the length of the longest run of non-whitespace that starts at text[i]
WordLen(text, i) ==
    IF i <= Len(text) /\ text[i] \notin Whitespace THEN 1 + WordLen(text, i + 1) ELSE 0

RECURSIVE TrailLen(_, _)
\* the length of the longest run of whitespace that ends at text[i]
TrailLen(text, i) ==
    IF i >= 1 /\ text[i] \in Whitespace THEN 1 + TrailLen(text, i - 1) ELSE 0

\* str.strip()
Strip(t) ==
    LET lead == RunLen(t, 1, Whitespace)
    IN  IF lead = Len(t) THEN <<>>
        ELSE SubSeq(t, lead + 1, Len(t) - TrailLen(t, Len(t)))

RECURSIVE SplitFrom(_, _)
SplitFrom(t, i) ==
    LET start == i + RunLen(t, i, Whitespace)
        n == WordLen(t, start)
    IN  IF n = 0 THEN <<>>
        ELSE <<SubSeq(t, start, start + n - 1)>> \o SplitFrom(t, start + n)

\* str.split(): the words of a text
SplitWords(t) == SplitFrom(t, 1)

\* _is_meaningful_chunk: at least min_words words and at least 40% letters
IsMeaningfulChunk(text) ==
    LET words == SplitWords(text)
        alpha_chars == Cardinality({i \in 1..Len(text) : IsAlpha(text[i])})
    IN  /\ ~(Len(words) < MinWords)
        /\ ~(alpha_chars * 10 < Len(text) * 4)

\* The three table-of-contents patterns and the two page-number patterns of
\* _clean_document_text.
CleanPatterns ==
    <<[kind |-> "toc",
       kw |-> <<"T","A","B","L","E"," ","O","F"," ","C","O","N","T","E","N","T","S">>],
      [kind |-> "toc", kw |-> <<"C","O","N","T","E","N","T","S">>],
      [kind |-> "toc", kw |-> <<"I","N","D","E","X">>],
      [kind |-> "dots", kw |-> <<>>],
      [kind |-> "dashes", kw |-> <<>>]>>

\* (?=\n\s*[A-Z0-9]) under IGNORECASE, looked at from text[j]
TocLookahead(text, j) ==
    /\ j <= Len(text)
    /\ text[j] = "\n"
    /\ LET k == j + 1 + RunLen(text, j + 1, Whitespace)
       IN  k <= Len(text) /\ (IsAlpha(text[k]) \/ text[k] \in Digits)

\* The index of the last character of the match of a pattern that starts at
\* text[i], 0 when the pattern does not match there.
MatchEnd(pattern, text, i) ==
    IF pattern.kind = "toc"
    THEN LET k == Len(pattern.kw)
             ends == {e \in (i + k)..Min(Len(text), i + k - 1 + MaxTocSpan) :
                          TocLookahead(text, e + 1)}
         IN  IF i + k - 1 <= Len(text)
                /\ Lower(SubSeq(text, i, i + k - 1)) = Lower(pattern.kw)
                /\ ends # {}
             THEN CHOOSE e \in ends : \A f \in ends : e <= f
             ELSE 0
    ELSE IF pattern.kind = "dots"
    THEN LET dots == RunLen(text, i, {"."})
             nums == RunLen(text, i + dots, Digits)
         IN  IF dots >= 4 /\ nums >= 1 THEN i + dots + nums - 1 ELSE 0
    ELSE LET sp1 == RunLen(text, i + 1, Whitespace)
             nums == RunLen(text, i + 1 + sp1, Digits)
             sp2 == RunLen(text, i + 1 + sp1 + nums, Whitespace)
             close == i + 1 + sp1 + nums + sp2
         IN  IF i <= Len(text) /\ text[i] = "-" /\ nums >= 1
                /\ close <= Len(text) /\ text[close] = "-"
             THEN close ELSE 0

RECURSIVE ReSub(_, _, _)
\* re.sub(pattern, '', text): every match removed, scanning from text[i]
ReSub(pattern, text, i) ==
    IF i > Len(text) THEN <<>>
    ELSE LET e == MatchEnd(pattern, text, i)
         IN  IF e # 0 THEN ReSub(pattern, text, e + 1)
             ELSE <<text[i]>> \o ReSub(pattern, text, i + 1)

RECURSIVE CleanWith(_, _)
CleanWith(patterns, text) ==
    IF patterns = <<>> THEN text
    ELSE CleanWith(Tail(patterns), ReSub(Head(patterns), text, 1))

\* _clean_document_text
CleanDocumentText(text) == CleanWith(CleanPatterns, text)

\* Documents handed to smart_chunking.
\* two sentences of eight words each
DocTwoSentences ==
    <<"a"," ","b"," ","c"," ","d"," ","e"," ","f"," ","g"," ","h","."," ","i",
      " ","j"," ","k"," ","l"," ","m"," ","n"," ","o"," ","p",".">>
\* three sentences, the first of four words
DocThreeSentences ==
    <<"P","a","y"," ","a"," ","b"," ","c","."," ","d"," ","e"," ","f"," ","g",
      " ","h"," ","i"," ","j"," ","k","!"," ","l"," ","m"," ","n"," ","o"," ",
      "p"," ","q"," ","r"," ","s","?">>
\* three sentences of figures
DocFigures ==
    <<"1"," ","2"," ","3"," ","4","."," ","5"," ","6"," ","7"," ","8","."," ",
      "9"," ","1","0"," ","1","1"," ","1","2",".">>
\* one line of figures without a full stop
DocTable ==
    <<"1"," ","2"," ","3"," ","4"," ","5"," ","6"," ","7"," ","8"," ","9"," ",
      "1","0"," ","1","1"," ","1","2">>
\* two sentences with page marks
DocPaged ==
    <<"a"," ","b"," ","c"," ","d"," ","e"," ","f"," ","g"," ","h","."," ","-",
      " ","1"," ","-","\n","i"," ","j"," ","k"," ","l"," ","m"," ","n"," ",
      "o"," ","p","."," ",".",".",".",".","7">>
\* a document that opens with an index
DocIndexed ==
    <<"I","n","d","e","x","\n","1"," ","a","\n","2"," ","b","\n","\n","A"," ",
      "b"," ","c"," ","d"," ","e"," ","f"," ","g"," ","h"," ","i",".">>
\* two words
DocShort ==
    <<"N","o"," ","t","e","r","m",".">>

Documents ==
    {DocTwoSentences,
     DocThreeSentences,
     DocFigures,
     DocTable,
     DocPaged, DocIndexed, DocShort, <<>>}

\* the chunker as constructed: SmartLegalChunker(chunk_size, chunk_overlap)
NewChunker(chunk_size, chunk_overlap) ==
    [chunk_size |-> chunk_size, chunk_overlap |-> chunk_overlap]

ChunkSizes == {16, 24}
ChunkOverlaps == {0, 10}

\* The places of a text where the text splitter may cut: the first character
\* of each run of whitespace.
Gaps(text) ==
    {i \in 2..Len(text) : text[i] \in Whitespace /\ text[i - 1] \notin Whitespace}

RECURSIVE CutSets(_, _)
\* the sets of at most n cuts
CutSets(gaps, n) ==
    IF n = 0 THEN {{}}
    ELSE LET fewer == CutSets(gaps, n - 1)
         IN  fewer \cup {cuts \cup {g} : cuts \in fewer, g \in gaps}

RECURSIVE PiecesFrom(_, _, _)
\* the stripped, non-empty stretches of text[start..] between the cuts
PiecesFrom(text, cuts, start) ==
    IF start > Len(text) THEN <<>>
    ELSE LET later == {c \in cuts : c > start}
             stop == IF later = {} THEN Len(text) + 1
                     ELSE CHOOSE c \in later : \A d \in later : c <= d
             piece == Strip(SubSeq(text, start, stop - 1))
         IN  (IF piece = <<>> THEN <<>> ELSE <<piece>>)
                 \o PiecesFrom(text, cuts, stop)

\* a piece the splitter may return: within chunk_size, or one word that no
\* separator divides
FitsChunkSize(self, piece) ==
    Len(piece) <= self.chunk_size \/ Len(SplitWords(piece)) = 1

\* self.text_splitter.split_text(text).  The splitter is langchain's
\* RecursiveCharacterTextSplitter(chunk_size, chunk_overlap, separators); of
\* its result the model keeps what the chunker relies on: a list of stripped
\* stretches of the text, in the order of the text, cut at whitespace and
\* within chunk_size; or an exception.
SplitText(self, text) ==
    {[raised |-> TRUE, chunk_texts |-> <<>>]}
        \cup {split \in {[raised |-> FALSE, chunk_texts |-> PiecesFrom(text, cuts, 1)] :
                             cuts \in CutSets(Gaps(text), MaxPieces - 1)} :
                 \A i \in 1..Len(split.chunk_texts) :
                     FitsChunkSize(self, split.chunk_texts[i])}

\* a dictionary that does not carry the enumerate index
LangchainChunkUnnumbered(i, chunk_text) ==
    [text |-> Strip(chunk_text),
     chunk_id |-> 0,
     type |-> "langchain_split",
     metadata |-> [word_count |-> Len(SplitWords(chunk_text)),
                   char_count |-> Len(chunk_text),
                   split_method |-> "langchain"]]

\* the dictionary _split_with_langchain appends for chunk_texts[i]
LangchainChunk(i, chunk_text) ==
    [text |-> Strip(chunk_text),
     chunk_id |-> i,
     type |-> "langchain_split",
     metadata |-> [word_count |-> Len(SplitWords(chunk_text)),
                   char_count |-> Len(chunk_text),
                   split_method |-> "langchain"]]

RECURSIVE LangchainChunksFrom(_, _)
\* the loop of _split_with_langchain from enumerate index i on
LangchainChunksFrom(chunk_texts, i) ==
    IF i >= Len(chunk_texts) THEN <<>>
    ELSE (IF IsMeaningfulChunk(chunk_texts[i + 1])
          THEN <<LangchainChunk(i, chunk_texts[i + 1])>> ELSE <<>>)
             \o LangchainChunksFrom(chunk_texts, i + 1)

\* _split_with_langchain, given what split_text returned
SplitWithLangchain(chunk_texts) == LangchainChunksFrom(chunk_texts, 0)

\* The places where a sentence may end: whitespace right after . ! or ?
\* ((?<=[.!?])\s+).
Boundaries(text) ==
    {i \in 2..Len(text) : text[i] \in Whitespace /\ text[i - 1] \in SentenceEnders}

RECURSIVE CutAt(_, _, _)
\* text[start..] cut at the boundaries of bs, each with the whitespace that
\* follows it taken out
CutAt(text, bs, start) ==
    LET later == {b \in bs : b >= start}
    IN  IF later = {} THEN <<SubSeq(text, start, Len(text))>>
        ELSE LET b == CHOOSE c \in later : \A d \in later : c <= d
             IN  <<SubSeq(text, start, b - 1)>>
                     \o CutAt(text, bs, b + RunLen(text, b, Whitespace))

\* re.split(r'(?<=[.!?])\s+', text)
RegexSentences(text) == CutAt(text, Boundaries(text), 1)

\* The sentences _split_with_nltk works on.  sent_tokenize is nltk's: it ends
\* a sentence at some of the boundaries and returns no empty sentence, or it
\* raises and the regular expression cuts at every boundary.
Sentences(text) ==
    {RegexSentences(text)}
        \cup {SelectSeq(CutAt(text, bs, 1), LAMBDA part : part # <<>>) : bs \in SUBSET Boundaries(text)}

\* the dictionary _split_with_nltk appends for current_chunk
NltkChunk(current_chunk, chunk_id) ==
    [text |-> Strip(current_chunk),
     chunk_id |-> chunk_id,
     type |-> "sentence_based",
     metadata |-> [word_count |-> Len(SplitWords(current_chunk)),
                   split_method |-> "nltk_fallback"]]

\* overlap_words: words[-self.chunk_overlap//4:] when there are more than
\* self.chunk_overlap//4 words, else all of them
OverlapWords(self, words) ==
    IF Len(words) > self.chunk_overlap \div 4
    THEN PySliceFrom(words, (-self.chunk_overlap) \div 4)
    ELSE words

RECURSIVE NltkLoop(_, _, _, _, _, _)
\* the loop of _split_with_nltk from sentences[i] on, and the last chunk
NltkLoop(self, sentences, i, current_chunk, chunk_id, chunks) ==
    IF i > Len(sentences)
    THEN IF Strip(current_chunk) # <<>>
         THEN Append(chunks, NltkChunk(current_chunk, chunk_id))
         ELSE chunks
    ELSE LET sentence == sentences[i]
         IN  IF Len(current_chunk \o sentence) > self.chunk_size
                   /\ current_chunk # <<>>
             THEN NltkLoop(self, sentences, i + 1,
                           Join(OverlapWords(self, SplitWords(current_chunk)), <<" ">>)
                               \o <<" ">> \o sentence,
                           chunk_id + 1,
                           Append(chunks, NltkChunk(current_chunk, chunk_id)))
             ELSE NltkLoop(self, sentences, i + 1,
                           current_chunk \o <<" ">> \o sentence, chunk_id, chunks)

\* _split_with_nltk, given the sentences
SplitWithNltk(self, sentences) == NltkLoop(self, sentences, 1, <<>>, 0, <<>>)

\* a chunking that takes the structure-aware chunks as soon as there is one
SmartChunkingFirstChunk(self, text) ==
    LET cleaned_text == CleanDocumentText(text)
    IN  UNION {IF ~split.raised /\ Len(SplitWithLangchain(split.chunk_texts)) > 0
               THEN {[cleaned_text |-> cleaned_text, split |-> split, fallback |-> FALSE,
                      sentences |-> <<>>,
                      chunks |-> SplitWithLangchain(split.chunk_texts)]}
               ELSE {[cleaned_text |-> cleaned_text, split |-> split, fallback |-> TRUE,
                      sentences |-> sentences,
                      chunks |-> SplitWithNltk(self, sentences)] :
                        sentences \in Sentences(cleaned_text)} :
               split \in SplitText(self, cleaned_text)}

\* smart_chunking: the runs it can take on a text, each with the cleaned text,
\* what the splitter returned, whether the fallback ran and on which
\* sentences, and the chunks returned
SmartChunking(self, text) ==
    LET cleaned_text == CleanDocumentText(text)
    IN  UNION {IF ~split.raised /\ Len(SplitWithLangchain(split.chunk_texts)) > 1
               THEN {[cleaned_text |-> cleaned_text, split |-> split, fallback |-> FALSE,
                      sentences |-> <<>>,
                      chunks |-> SplitWithLangchain(split.chunk_texts)]}
               ELSE {[cleaned_text |-> cleaned_text, split |-> split, fallback |-> TRUE,
                      sentences |-> sentences,
                      chunks |-> SplitWithNltk(self, sentences)] :
                        sentences \in Sentences(cleaned_text)} :
               split \in SplitText(self, cleaned_text)}

\* The chunker on its own: a chunker is constructed and handed a document,
\* then smart_chunking runs on it.
\* chunks = chunker.smart_chunking(text)
Chunk ==
    /\ last.op = "chunker"
    /\ \E run \in SmartChunking(NewChunker(last.chunk_size, last.chunk_overlap),
                                 last.text) :
           last' = [op |-> "chunk", text |-> last.text,
                    chunk_size |-> last.chunk_size,
                    chunk_overlap |-> last.chunk_overlap] @@ run
    /\ UNCHANGED <<server, llm_up, files, loaded_documents, vector_store,
                   rag_pipeline, questions_answered, is_ready, pending, remembered>>

\* chunker = SmartLegalChunker(chunk_size, chunk_overlap), and the document
ChunkInit ==
    /\ server = "main"
    /\ llm_up = FALSE
    /\ files = {}
    /\ loaded_documents = <<>>
    /\ vector_store = NewVectorStore
    /\ rag_pipeline = NoPipeline
    /\ questions_answered = 0
    /\ is_ready = FALSE
    /\ pending = {}
    /\ \E text \in Documents, chunk_size \in ChunkSizes,
              chunk_overlap \in ChunkOverlaps :
           last = [op |-> "chunker", text |-> text, chunk_size |-> chunk_size,
                   chunk_overlap |-> chunk_overlap]
    /\ remembered = NothingRemembered

ChunkSpec == ChunkInit /\ [][Chunk]_vars

\* ---------------------------------------------------------- properties
\* the sum of chunks_count over the records of loaded_documents
RECURSIVE SumChunksCount(_)
SumChunksCount(docs) ==
    IF docs = <<>> THEN 0
    ELSE Head(docs).chunks_count + SumChunksCount(Tail(docs))

\* get_system_status()['vector_db_size']
VectorDbSize == IF vector_store.is_trained THEN NTotal(vector_store) ELSE 0

\* C1, as the specification states it: whatever uploads succeeded since the
\* last clear, the index holds the chunks of every document listed in
\* loaded_documents: vector_db_size is the sum of their chunks_count.
C1_IndexHoldsEveryLoadedDocument ==
    VectorDbSize = SumChunksCount(loaded_documents)

\* a question put to the pipeline whose search returned
Searched == last.op = "ask" /\ ~last.searched.raised

\* a question the pipeline answered from at least one retrieved chunk
Answered == Searched /\ last.returned /\ last.searched.results # <<>>

\* the store's vectors at the positions the first m rows name
Listed(m) == {last.searched.rows[i].idx + 1 : i \in 1..m}

\* C2: the list search returns is ordered by non-decreasing distance, that is
\* by non-increasing similarity_score; the rank of each result is its 1-based
\* position; and the first min(top_k, n) results are the min(top_k, n) chunks
\* nearest to the query: no chunk left out is nearer than one listed.
C2_NearestFirstRanked ==
    Searched =>
        LET results == last.searched.results
            rows == last.searched.rows
            qv == Embed(last.question)
            m == Min(last.top_k, NTotal(vector_store))
        IN  /\ \A i \in 1..Len(results) : results[i].rank = i
            /\ \A i, j \in 1..Len(results) :
                   i < j => /\ rows[i].distance <= rows[j].distance
                            /\ results[i].similarity_score >= results[j].similarity_score
            /\ Len(results) >= m
            /\ \A i \in 1..m :
                   /\ rows[i].idx \in 0..(NTotal(vector_store) - 1)
                   /\ results[i].chunk = vector_store.chunks_data[rows[i].idx + 1]
                   /\ rows[i].distance = L2Sqr(qv, vector_store.index[rows[i].idx + 1])
                   /\ \A c \in (1..NTotal(vector_store)) \ Listed(m) :
                          L2Sqr(qv, vector_store.index[c]) >= rows[i].distance

\* C2's case: two of three chunks are asked for and come back at different
\* distances
C2_Witness ==
    /\ Searched
    /\ NTotal(vector_store) = 3
    /\ last.top_k = 2
    /\ Len(last.searched.results) = 2
    /\ last.searched.rows[1].distance < last.searched.rows[2].distance

\* C3, as the specification states it: a search of a trained index of n chunks
\* with top_k >= 1 returns at most min(top_k, n) results, no chunk twice, and
\* no result made from a row whose idx is -1.
C3_NoMissingNeighbourResult ==
    (Searched /\ vector_store.is_trained /\ last.top_k >= 1) =>
        LET results == last.searched.results
            rows == last.searched.rows
        IN  /\ Len(results) <= Min(last.top_k, NTotal(vector_store))
            /\ \A i, j \in 1..Len(results) :
                   i # j => results[i].chunk # results[j].chunk
            /\ Len(results) = Cardinality({i \in 1..Len(rows) : rows[i].idx # -1})

\* the distances a question of Questions can have to a chunk of the samples,
\* with the distance of a missing neighbour
Distances ==
    {L2Sqr(Embed(q), Embed(t)) : q \in Questions, t \in {TextTerm, TextPay, TextConf}}
        \cup {FltMax}

\* C4, as the specification states it: every similarity_score is 1/(1+distance)
\* as computed, lies in (0, 1], is 1 only at distance 0, and does not grow with
\* the distance.
C4_ScoreOneOnlyAtDistanceZero ==
    Searched =>
        LET results == last.searched.results
            rows == last.searched.rows
        IN  \A i \in 1..Len(results) :
               /\ results[i].similarity_score =
                      FloatRound(One * One, FloatRound(One + rows[i].distance, 1))
               /\ results[i].similarity_score > 0
               /\ results[i].similarity_score <= One
               /\ results[i].similarity_score = One => rows[i].distance = 0
               /\ \A j \in 1..Len(results) :
                      rows[i].distance <= rows[j].distance
                          => results[i].similarity_score >= results[j].similarity_score

\* C4, amended: every similarity_score is 1/(1+distance) as computed in floating
\* point, the sum rounded and then the quotient; it lies in (0, 1]; it is 1 at
\* distance 0 and otherwise exactly when 1+distance rounds to 1; and over the
\* results of a search as over all distances it does not grow with the distance.
C4_ScoreOfDistance ==
    /\ Searched =>
        LET results == last.searched.results
            rows == last.searched.rows
        IN  \A i \in 1..Len(results) :
               /\ results[i].similarity_score =
                      FloatRound(One * One, FloatRound(One + rows[i].distance, 1))
               /\ results[i].similarity_score > 0
               /\ results[i].similarity_score <= One
               /\ rows[i].distance = 0 => results[i].similarity_score = One
               /\ results[i].similarity_score = One
                      <=> FloatRound(One + rows[i].distance, 1) = One
               /\ \A j \in 1..Len(results) :
                      rows[i].distance <= rows[j].distance
                          => results[i].similarity_score >= results[j].similarity_score
    /\ \A d1, d2 \in Distances :
           d1 <= d2 => Similarity(d1) >= Similarity(d2)

\* C4's case: a search returns a chunk at a distance above 0 with the score 1,
\* and another with a score below 1
C4_Witness ==
    /\ Searched
    /\ \E i, j \in 1..Len(last.searched.results) :
           /\ last.searched.rows[i].distance > 0
           /\ last.searched.results[i].similarity_score = One
           /\ last.searched.results[j].similarity_score < One

\* the smallest and the largest similarity_score of a non-empty result list
MinScore(results) ==
    CHOOSE x \in {results[i].similarity_score : i \in 1..Len(results)} :
        \A i \in 1..Len(results) : x <= results[i].similarity_score
MaxScore(results) ==
    CHOOSE x \in {results[i].similarity_score : i \in 1..Len(results)} :
        \A i \in 1..Len(results) : x >= results[i].similarity_score

\* C5, as the specification states it: the confidence (in thousandths) lies
\* between the smallest and the largest retrieved score, hence in [0, 1], and
\* is 0 when no chunk was retrieved.
C5_ConfidenceBetweenMinAndMax ==
    (last.op = "ask" /\ last.returned) =>
        LET results == last.searched.results
            confidence == last.result.confidence
        IN  IF results = <<>> THEN confidence = 0
            ELSE /\ confidence * One >= 1000 * MinScore(results)
                 /\ confidence * One <= 1000 * MaxScore(results)
                 /\ confidence >= 0
                 /\ confidence <= 1000

\* C5, amended: the confidence is the mean of the retrieved scores, summed in
\* floating point in the order of the results and divided by their number,
\* then rounded to 3 decimals; it lies in [0, 1]; with one chunk retrieved it
\* is that chunk's score rounded to 3 decimals (which may fall below the
\* score); it is 0 when no chunk was retrieved.
C5_ConfidenceIsRoundedMean ==
    (last.op = "ask" /\ last.returned) =>
        LET results == last.searched.results
            confidence == last.result.confidence
        IN  IF results = <<>> THEN confidence = 0
            ELSE /\ confidence =
                        Round3(FloatRound(TotalConfidence(results), Len(results)))
                 /\ Len(results) = 1 =>
                        confidence = Round3(results[1].similarity_score)
                 /\ confidence >= 0
                 /\ confidence <= 1000

\* C5's case: an answer from several chunks of different scores
C5_Witness ==
    /\ Answered
    /\ Len(last.searched.results) >= 2
    /\ MinScore(last.searched.results) < MaxScore(last.searched.results)
    /\ last.result.confidence > 0

\* C6, as the specification states it: a question answered from at least one
\* retrieved chunk is put to the generative model when the model is reachable
\* at the time of the question, and is answered by the fallback when it is not
\* reachable then, whatever was the case when the document was uploaded.
C6_ModelAskedWhenReachable ==
    Answered =>
        /\ last.llm_up => last.llm_call # "not_called"
        /\ ~last.llm_up => last.result.answer.kind = "fallback"

\* the keys of the dict answer_question is to return
AnswerFields == {"answer", "sources", "confidence", "performance"}

\* C7, as the specification states it: when the POST returns a status other
\* than 200, raises or times out, or returns a body with none of the keys or a
\* malformed choices entry, the answer is the fallback's; and every answer from
\* at least one retrieved chunk is a string, returned together with sources,
\* confidence and performance.
C7_AlwaysAnAnswerString ==
    Answered =>
        /\ last.llm_call \in LlmFailureTags =>
               last.result.answer =
                   SmartFallback(last.question,
                                 PrepareLegalContext(last.searched.results), <<>>)
        /\ AnswerFields \subseteq DOMAIN last.result
        /\ last.result.answer.kind \in {"llm", "fallback"}

\* C8: two runs of _smart_fallback with the same question and the same context
\* return the same answer, whichever call site ran them (with the search
\* results or with []), whatever was asked before and whatever the state of
\* the store, the pipeline and the model service at each run.
C8_FallbackDeterministic ==
    [][(/\ remembered.present
        /\ remembered'.present
        /\ remembered'.question = remembered.question
        /\ remembered'.context = remembered.context)
           => remembered'.answer = remembered.answer]_vars

\* C8's case: the fallback has run twice in a row on the same question and
\* context, once from each call site
C8_Witness == remembered.present /\ remembered.other_site

\* C9: the sources of an answer cite the search results one for one and in
\* their order, each with the result's text and with its similarity score
\* rounded to 3 decimals as relevance_score, so by non-increasing
\* relevance_score; performance.sources_count is the length of sources.
C9_SourcesCiteResults ==
    (last.op = "ask" /\ last.returned) =>
        LET results == last.searched.results
            sources == last.result.sources
        IN  /\ Len(sources) = Len(results)
            /\ \A i \in 1..Len(sources) :
                   /\ sources[i].full_content = results[i].chunk.text
                   /\ sources[i].relevance_score = Round3(results[i].similarity_score)
                   /\ sources[i].relevance_score * One
                          \in (1000 * results[i].similarity_score - One \div 2)
                              ..(1000 * results[i].similarity_score + One \div 2)
            /\ \A i, j \in 1..Len(sources) :
                   i < j => sources[i].relevance_score >= sources[j].relevance_score
            /\ results # <<>> => last.result.performance.sources_count = Len(sources)

\* C9's case: an answer citing two chunks of different relevance
C9_Witness ==
    /\ Answered
    /\ Len(last.result.sources) = 2
    /\ last.result.sources[1].full_content # last.result.sources[2].full_content
    /\ last.result.sources[1].relevance_score > last.result.sources[2].relevance_score

\* C10, as the specification states it: every response of POST /ask is a
\* QuestionResponse with success, answer, confidence, sources and performance,
\* whether the question succeeded, failed or met no document.
C10_AskAlwaysWellFormed ==
    last.op = "ask" =>
        /\ last.response.status = 200
        /\ RequiredFields \subseteq DOMAIN last.response.body

\* ------------------------------------------------ properties of the server
\* the steps of the server: every request writes last and leaves llm_up alone
UploadStep == llm_up' = llm_up /\ last'.op = "upload"
AskStep == llm_up' = llm_up /\ last'.op = "ask"
ClearStep == llm_up' = llm_up /\ last'.op = "clear"

\* get_system_status()['llm_available']
StatusLlmAvailable == rag_pipeline.present /\ rag_pipeline.llm_available

\* C11, as the specification states it: a question asked while no document is
\* loaded is answered with success=false and the error asking for a document;
\* nothing is searched, the model is not called, and loaded_documents, the
\* index, the pipeline and questions_answered stay as they were.
C11_NotReadyAnsweredWithError ==
    [][(AskStep /\ ~is_ready) =>
          /\ last'.response.status = 200
          /\ last'.response.body.success = FALSE
          /\ last'.response.body.error = "no_documents"
          /\ last'.searched = NotSearched
          /\ last'.llm_call = "not_called"
          /\ UNCHANGED <<loaded_documents, vector_store, rag_pipeline,
                         questions_answered>>]_vars

\* C12: a successful upload appends exactly one record to loaded_documents,
\* whose chunks_count is the number of chunks of the upload and of vectors
\* indexed for it; the earlier records stay as they were and in their order;
\* is_ready becomes true; and no step but a clear takes a record away.
C12_UploadAppendsOneRecord ==
    [][/\ (UploadStep /\ last'.status = 200) =>
             /\ Len(loaded_documents') = Len(loaded_documents) + 1
             /\ SubSeq(loaded_documents', 1, Len(loaded_documents)) = loaded_documents
             /\ loaded_documents'[Len(loaded_documents')].chunks_count
                    = Len(last'.upload.chunks)
             /\ loaded_documents'[Len(loaded_documents')].chunks_count
                    = NTotal(vector_store')
             /\ last'.body.chunks_count = Len(last'.upload.chunks)
             /\ is_ready'
       /\ ~ClearStep =>
             /\ Len(loaded_documents') >= Len(loaded_documents)
             /\ SubSeq(loaded_documents', 1, Len(loaded_documents)) = loaded_documents
       /\ ~(UploadStep /\ last'.status = 200) =>
             Len(loaded_documents') <= Len(loaded_documents)]_vars

\* C12's case: a second upload has succeeded and its record follows the first
C12_Witness ==
    /\ last.op = "upload"
    /\ last.status = 200
    /\ Len(loaded_documents) = 2
    /\ loaded_documents[2].document_id = last.body.document_id
    /\ loaded_documents[1].chunks_count # loaded_documents[2].chunks_count

\* C13: after a clear, from any state, loaded_documents is empty, is_ready is
\* false, the questions counter is 0, vector_db_size is 0, llm_available is
\* reported false, the pipeline is absent and the file of every record dropped
\* is gone; a clear that follows a clear changes nothing of this.
C13_ClearResets ==
    /\ [](last.op = "clear" =>
            /\ loaded_documents = <<>>
            /\ ~is_ready
            /\ questions_answered = 0
            /\ VectorDbSize = 0
            /\ ~StatusLlmAvailable
            /\ ~rag_pipeline.present)
    /\ [][ClearStep =>
            /\ \A i \in 1..Len(loaded_documents) :
                   loaded_documents[i].file_path \notin files'
            /\ last'.dropped = Len(loaded_documents)
            /\ last.op = "clear" =>
                   UNCHANGED <<files, loaded_documents, vector_store, rag_pipeline,
                               questions_answered, is_ready>>]_vars

\* C13's case: a clear has dropped two records
C13_Witness == last.op = "clear" /\ last.dropped = 2 /\ files = {}

\* C14: an upload that fails in processing (the loader refuses the file, no
\* chunk is produced, or the embedding raises) is answered with status 500;
\* its saved file is gone, no record is added, and is_ready, the index, the
\* pipeline and questions_answered are as before the upload.
C14_FailedUploadLeavesNoTrace ==
    [][/\ (UploadStep /\ last'.upload.ext \in AllowedExtensions
                      /\ ProcessingFails(last'.upload)) => last'.status = 500
       /\ (UploadStep /\ last'.status = 500) =>
             /\ files' = files
             /\ UNCHANGED <<loaded_documents, is_ready, vector_store, rag_pipeline,
                            questions_answered>>]_vars

\* C14's case: the embedding of an upload has failed on a server holding a
\* document
C14_Witness ==
    /\ last.op = "upload"
    /\ last.status = 500
    /\ last.detail = "embedding_error"
    /\ is_ready
    /\ Len(loaded_documents) = 1
    /\ Cardinality(files) = 1

\* C15: an upload whose extension is none of .pdf, .docx, .txt, .doc is
\* answered with status 400; no file is saved and no part of the server's
\* state changes.
C15_RejectedUploadChangesNothing ==
    [][(UploadStep /\ last'.upload.ext \notin {".pdf", ".docx", ".txt", ".doc"}) =>
          /\ last'.status = 400
          /\ UNCHANGED <<server, llm_up, files, loaded_documents, vector_store,
                         rag_pipeline, questions_answered, is_ready, pending>>]_vars

\* C15's case: an upload has been rejected by a server holding a document
C15_Witness ==
    /\ last.op = "upload"
    /\ last.status = 400
    /\ last.upload.ext = ".exe"
    /\ is_ready

\* C16, as the specification states it: no upload with an extension of the
\* allowed set fails in the loader with 'Unsupported format'.
C16_AllowedFormatsLoad ==
    (last.op = "upload" /\ last.upload.ext \in AllowedExtensions) =>
        ~(last.status = 500 /\ last.detail = "unsupported_format")

\* ----------------------------------------------- properties of the chunker
\* smart_chunking has returned
Chunked == last.op = "chunk"

\* the pieces of the splitter that _is_meaningful_chunk accepts, by position
MeaningfulPieces ==
    {i \in 1..Len(last.split.chunk_texts) : IsMeaningfulChunk(last.split.chunk_texts[i])}

\* s is the end of t
EndsWith(t, s) == Len(s) <= Len(t) /\ SubSeq(t, Len(t) - Len(s) + 1, Len(t)) = s

\* C17, as the specification states it: on either path, the text of every
\* chunk smart_chunking returns is at most chunk_size characters long.
C17_ChunksWithinChunkSize ==
    Chunked => \A i \in 1..Len(last.chunks) :
                   Len(last.chunks[i].text) <= last.chunk_size

\* C18, as the specification states it: every chunk smart_chunking returns
\* has text, chunk_id, type and metadata, and its metadata has word_count,
\* char_count and split_method.
C18_ChunksCarryAllFields ==
    Chunked => \A i \in 1..Len(last.chunks) :
                   /\ {"text", "chunk_id", "type", "metadata"}
                          \subseteq DOMAIN last.chunks[i]
                   /\ {"word_count", "char_count", "split_method"}
                          \subseteq DOMAIN last.chunks[i].metadata

\* C19: in the list smart_chunking returns, chunk_ids are pairwise distinct
\* and strictly increasing, and the list follows the text.  On the
\* structure-aware path the chunk with chunk_id k is the k-th piece of the
\* splitter (counted from 0), a meaningful one, so ids skip the pieces
\* filtered out; on the sentence path ids count from 0 without gaps and each
\* chunk ends with a later sentence than the chunk before it, the last chunk
\* with the last sentence.
C19_ChunkIdsIncreaseInTextOrder ==
    Chunked =>
        LET chunks == last.chunks
            n == Len(chunks)
        IN  /\ \A i, j \in 1..n : i < j => chunks[i].chunk_id < chunks[j].chunk_id
            /\ ~last.fallback =>
                   \A i \in 1..n :
                       /\ chunks[i].chunk_id + 1 \in MeaningfulPieces
                       /\ chunks[i].text
                              = Strip(last.split.chunk_texts[chunks[i].chunk_id + 1])
            /\ last.fallback =>
                   /\ \A i \in 1..n : chunks[i].chunk_id = i - 1
                   /\ n > 0 =>
                        \E f \in [1..n -> 1..Len(last.sentences)] :
                            /\ \A i, j \in 1..n : i < j => f[i] < f[j]
                            /\ f[n] = Len(last.sentences)
                            /\ \A i \in 1..n :
                                   EndsWith(chunks[i].text, Strip(last.sentences[f[i]]))

\* C19's case: the first piece of the splitter was filtered out and the two
\* chunks that follow it carry the ids 1 and 2
C19_Witness ==
    /\ Chunked
    /\ ~last.fallback
    /\ 1 \notin MeaningfulPieces
    /\ Len(last.chunks) = 2
    /\ last.chunks[1].chunk_id = 1
    /\ last.chunks[2].chunk_id = 2

\* C20: smart_chunking returns the structure-aware chunks, one for each
\* meaningful piece and in their order, exactly when the splitter returned
\* and more than one piece is meaningful; otherwise (no or one meaningful
\* piece, or the splitter raised) it returns the sentence-based chunks of the
\* same cleaned text.  The chunks returned are all of one type.
C20_StructureAwareOrSentenceFallback ==
    Chunked =>
        LET chunks == last.chunks
            self == NewChunker(last.chunk_size, last.chunk_overlap)
            structured == ~last.split.raised /\ Cardinality(MeaningfulPieces) > 1
        IN  /\ last.cleaned_text = CleanDocumentText(last.text)
            /\ structured =>
                   /\ ~last.fallback
                   /\ Len(chunks) = Cardinality(MeaningfulPieces)
                   /\ \A i \in 1..Len(chunks) :
                          /\ chunks[i].type = "langchain_split"
                          /\ chunks[i].metadata.split_method = "langchain"
                          /\ chunks[i].chunk_id + 1 \in MeaningfulPieces
            /\ ~structured =>
                   /\ last.fallback
                   /\ last.sentences \in Sentences(last.cleaned_text)
                   /\ chunks = SplitWithNltk(self, last.sentences)
                   /\ \A i \in 1..Len(chunks) :
                          /\ chunks[i].type = "sentence_based"
                          /\ chunks[i].metadata.split_method = "nltk_fallback"

\* C20's case: the splitter returned and exactly one piece is meaningful, and
\* the sentence path has produced the chunks
C20_Witness ==
    /\ Chunked
    /\ ~last.split.raised
    /\ Cardinality(MeaningfulPieces) = 1
    /\ last.fallback
    /\ last.chunks # <<>>
    /\ last.chunks[1].type = "sentence_based"

\* ---------------------------------------------- properties of a question
\* C21: answer_question searches first, generates the answer next and formats
\* the response last.  The model is posted to only when the search has
\* returned at least one chunk and the pipeline holds the model available, and
\* one question makes one POST at most.  When the search returns no chunk,
\* neither the model nor the fallback runs: the fixed 'not found' answer comes
\* back with confidence 0 and no sources.  When the search raises, nothing
\* is generated or returned.  Every other answer is generated (by the model or
\* the fallback) and formatted with one source for each chunk found.
C21_SearchThenAnswerThenFormat ==
    last.op = "ask" =>
        /\ last.llm_call # "not_called" =>
               /\ ~last.searched.raised
               /\ last.searched.results # <<>>
               /\ rag_pipeline.llm_available
               /\ last.returned
        /\ last.searched.raised =>
               ~last.returned /\ last.llm_call = "not_called"
        /\ (last.returned /\ last.searched.results = <<>>) =>
               /\ last.llm_call = "not_called"
               /\ last.result.answer.kind = "fixed"
               /\ last.result.answer.template = "not_found"
               /\ last.result.confidence = 0
               /\ last.result.sources = <<>>
        /\ (last.returned /\ last.searched.results # <<>>) =>
               /\ last.result.answer.kind # "fixed"
               /\ Len(last.result.sources) = Len(last.searched.results)
               /\ last.result.performance.sources_count = Len(last.searched.results)
               /\ rag_pipeline.llm_available => last.llm_call # "not_called"
               /\ ~rag_pipeline.llm_available =>
                      /\ last.llm_call = "not_called"
                      /\ last.result.answer.kind = "fallback"

\* C21's case: the search of a trained store has returned no chunk while the
\* pipeline holds the model available
C21_Witness ==
    /\ last.op = "ask"
    /\ last.returned
    /\ vector_store.is_trained
    /\ last.searched.results = <<>>
    /\ rag_pipeline.llm_available
    /\ last.result.answer.template = "not_found"

\* the answer of a POST /ask carries success=true
AnsweredWithSuccess(response) == response.status = 200 /\ response.body.success

\* C22, as the specification states it: the questions counter counts the
\* questions answered with success=true.  A question answered with
\* success=true adds 1; a question that fails, or is asked with no document
\* loaded, adds nothing; an upload leaves the counter as it is; a clear sets
\* it to 0.
C22_CounterCountsSuccessfulAnswers ==
    [][/\ AskStep =>
             questions_answered' =
                 IF AnsweredWithSuccess(last'.response)
                 THEN questions_answered + 1 ELSE questions_answered
       /\ UploadStep => questions_answered' = questions_answered
       /\ ClearStep => questions_answered' = 0]_vars

\* C23: with requests handled one at a time, is_ready is true exactly when
\* loaded_documents is not empty, and a ready server has a pipeline and a
\* trained store that holds vectors.  The pipeline reads the store it was
\* built over: the store is replaced by a new one only in a clear, which drops
\* the pipeline with it, and a pipeline appears only in a successful upload,
\* which builds it over the store it has just indexed.
C23_ReadyMeansDocumentsAndPipeline ==
    /\ [](/\ is_ready <=> loaded_documents # <<>>
          /\ is_ready => /\ rag_pipeline.present
                         /\ vector_store.is_trained
                         /\ NTotal(vector_store) > 0
          /\ rag_pipeline.present => vector_store.is_trained)
    /\ [][/\ (vector_store' = NewVectorStore /\ vector_store # NewVectorStore) =>
                 ClearStep /\ ~rag_pipeline'.present
          /\ (rag_pipeline'.present /\ ~rag_pipeline.present) =>
                 /\ UploadStep
                 /\ last'.status = 200
                 /\ vector_store' = CreateEmbeddings(vector_store, last'.upload.chunks)]_vars

\* C23's case: a question has been put to a server made ready again by an
\* upload, with two documents loaded, and its search has not raised
C23_Witness ==
    /\ is_ready
    /\ Len(loaded_documents) = 2
    /\ last.op = "ask"
    /\ ~last.searched.raised
    /\ last.returned

\* the file_path values of the records in loaded_documents
RecordedFiles == {loaded_documents[i].file_path : i \in 1..Len(loaded_documents)}

\* C24: after every request, the files kept in the upload directory are
\* exactly the file_path values of the records in loaded_documents, one file
\* for each record.  A successful upload adds one file and one record, a
\* failed or refused upload leaves the files as they were, and a clear removes
\* the file of every record it drops.
C24_FilesAreTheRecordedFiles ==
    /\ [](files = RecordedFiles /\ Cardinality(files) = Len(loaded_documents))
    /\ [][/\ (UploadStep /\ last'.status = 200) =>
                 /\ Cardinality(files') = Cardinality(files) + 1
                 /\ files \subseteq files'
                 /\ Len(loaded_documents') = Len(loaded_documents) + 1
          /\ (UploadStep /\ last'.status # 200) =>
                 files' = files /\ loaded_documents' = loaded_documents
          /\ ClearStep => files' = files \ RecordedFiles /\ loaded_documents' = <<>>]_vars

\* C24's case: an upload has failed on a server that keeps the files of two
\* records
C24_Witness ==
    /\ last.op = "upload"
    /\ last.status = 500
    /\ Len(loaded_documents) = 2
    /\ Cardinality(files) = 2

\* ------------------------------------- properties of concurrent requests
\* an upload reaches 'await file.read()'; an upload resumes from it
UploadBeginStep == last'.op = "upload_started" /\ pending' # pending
UploadResumeStep == last'.op = "upload" /\ pending' # pending

\* C25: requests interleave only where an upload awaits file.read(): up to
\* there the upload has changed nothing of the server's state, and every
\* other handler runs from start to end.  Under every interleaving, is_ready
\* is never true while the pipeline is absent, so a question put to a ready
\* server reaches its pipeline and is answered by it; and an upload that can
\* be processed ends, whatever happened while it waited (a clear included),
\* with its file stored, its record the last of loaded_documents and the
\* server ready.
C25_InterleavedUploadsStaySound ==
    /\ [](is_ready => rag_pipeline.present /\ vector_store.is_trained)
    /\ [][/\ UploadBeginStep =>
                 UNCHANGED <<files, loaded_documents, vector_store, rag_pipeline,
                             is_ready, questions_answered>>
          /\ (AskStep /\ is_ready) => last'.returned
          /\ (UploadResumeStep /\ ~ProcessingFails(last'.upload)) =>
                 /\ last'.status = 200
                 /\ is_ready'
                 /\ rag_pipeline'.present
                 /\ Len(loaded_documents') = Len(loaded_documents) + 1
                 /\ \A p \in pending \ pending' :
                        /\ p.file_id \in files'
                        /\ loaded_documents'[Len(loaded_documents')].file_path
                               = p.file_id]_vars

\* C25's case: a lone record whose file is not the first file id.  Its upload
\* drew the id while another record was loaded, a clear dropped that record
\* while the upload awaited file.read(), and the upload then resumed.
C25_Witness ==
    /\ last.op = "upload"
    /\ last.status = 200
    /\ pending = {}
    /\ Len(loaded_documents) = 1
    /\ loaded_documents[1].file_path # 0
    /\ files = {loaded_documents[1].file_path}
    /\ is_ready

\* ------------------------------------------- properties of the fallback
\* the keyword groups of _smart_fallback in their priority, each with the
\* template it selects
KeywordGroups ==
    <<[template |-> "termination", words |-> {KwTerminat, KwEnd, KwCancel}],
      [template |-> "compensation", words |-> {KwSalary, KwCompensat, KwPay, KwBonus}],
      [template |-> "confidentiality", words |-> {KwConfident, KwSecret, KwNda}],
      [template |-> "ip", words |-> {KwIntellectual, KwIp, KwProperty, KwInvention}]>>

\* the groups of which a keyword occurs in the lower-cased question
GroupsMatched(question) ==
    {g \in 1..Len(KeywordGroups) :
        \E w \in KeywordGroups[g].words : Contains(Lower(question), w)}

\* C26: _smart_fallback answers with the template of the first keyword group,
\* in the priority termination, compensation, confidentiality, intellectual
\* property, of which a keyword occurs as a substring of the lower-cased
\* question; when no keyword occurs, it answers with the generic template,
\* which embeds the whole context.
C26_FirstMatchingGroupWins ==
    last.op = "fallback_pick" =>
        LET matched == GroupsMatched(last.question)
        IN  /\ last.answer.kind = "fallback"
            /\ matched # {} =>
                   LET first == CHOOSE g \in matched : \A h \in matched : g <= h
                   IN  last.answer.template = KeywordGroups[first].template
            /\ matched = {} =>
                   /\ last.answer.template = "generic"
                   /\ last.answer.context = last.context

\* C26's case: the question names compensation before termination, and the
\* termination template has answered it
C26_Witness ==
    /\ last.op = "fallback_pick"
    /\ last.question = QPayEnd
    /\ GroupsMatched(last.question) = {1, 2}
    /\ last.answer.template = "termination"

\* ------------------------------- properties of the sentence-based splitting
\* _split_with_nltk has run: smart_chunking took the fallback
SplitBySentences == Chunked /\ last.fallback

\* the last k of the words
LastWords(words, k) == SubSeq(words, Len(words) - k + 1, Len(words))

\* the sentences after sentence number start up to sentence number end, one
\* space between them
SentencesJoined(start, end) == Join(SubSeq(last.sentences, start + 1, end), <<" ">>)

\* chunk_ids are consecutive from 0
ChunkIdsConsecutive ==
    \A i \in 1..Len(last.chunks) : last.chunks[i].chunk_id = i - 1

\* a text with a character that is not whitespace yields a chunk
NonBlankTextYieldsChunk ==
    (\E i \in 1..Len(last.cleaned_text) : last.cleaned_text[i] \notin Whitespace)
        => Len(last.chunks) >= 1

\* The sentences are dealt out to the chunks in their order, each chunk
\* taking at least one and the last chunk taking the last sentence: ends[i] is
\* the number of the last sentence of chunk i.  The first chunk is its
\* sentences; a later chunk is at most max_overlap trailing words of the chunk
\* before it, followed by its sentences.
SentencesDealtInOrder(max_overlap) ==
    LET n == Len(last.sentences)
        m == Len(last.chunks)
    IN  IF m = 0
        THEN \A s \in 1..n : Strip(last.sentences[s]) = <<>>
        ELSE \E ends \in [1..m -> 1..n] :
                 /\ ends[m] = n
                 /\ \A i \in 1..(m - 1) : ends[i] < ends[i + 1]
                 /\ last.chunks[1].text = Strip(SentencesJoined(0, ends[1]))
                 /\ \A i \in 2..m :
                        LET words == SplitWords(last.chunks[i - 1].text)
                        IN  \E k \in 0..Min(max_overlap, Len(words)) :
                                last.chunks[i].text
                                    = Strip(Join(LastWords(words, k), <<" ">>) \o <<" ">>
                                                \o SentencesJoined(ends[i - 1], ends[i]))

\* C27, as the specification states it: in the sentence-based splitting every
\* sentence of the text is in a chunk and the sentences keep their order,
\* chunk_ids are consecutive from 0, every chunk after the first begins with
\* at most chunk_overlap // 4 trailing words of the chunk before it, and a
\* text with a character that is not whitespace yields at least one chunk.
C27_SentencesKeptWithBoundedOverlap ==
    SplitBySentences =>
        /\ SentencesDealtInOrder(last.chunk_overlap \div 4)
        /\ ChunkIdsConsecutive
        /\ NonBlankTextYieldsChunk

====
